---- MODULE Spec2Model ----
(***************************************************************************)
(* Frame rendering engine: HTMLFrameGenerator                              *)
(* (src/reelforge/services/frame_html.py) and the two HTTP handlers that   *)
(* drive it (src/api/routers/frame.py).                                    *)
(*                                                                         *)
(* Strings are sequences of symbols.  A symbol is one brace, one           *)
(* punctuation character, one literal letter, or one whole identifier      *)
(* (a key name such as "topic" or a type name such as "color").            *)
(* The placeholder {{key}} is therefore the five-symbol string             *)
(* "{" "{" key "}" "}".                                                    *)
(*                                                                         *)
(* The router passes title= where generate_frame declares topic; following *)
(* the data model (required fields topic/title, text, image) the handler's *)
(* title is bound to the generator's first required field.                 *)
(***************************************************************************)
EXTENDS Integers, Sequences, FiniteSets, TLC

VARIABLES disk, gen, pc, call, fs, result, api, hist, queued, parked

vars == <<disk, gen, pc, call, fs, result, api, hist, queued, parked>>

\* The other coroutines of the event loop: whether a second generate_frame
\* call on the engine is waiting for the loop, and the call suspended at an
\* await, if any.
conc == <<queued, parked>>

(* ---------------------------------------------------------------- bounds *)

\* Templates on disk are concatenations of at most MaxPieces pieces.
MaxPieces == 2

(* ------------------------------------------------------------- constants *)

DefaultWidth == 1080
DefaultHeight == 1920

(* --------------------------------------------------------------- strings *)

\* Python's None, kept apart from every string (no string holds this symbol).
None == <<"None">>

\* f"{{{{{key}}}}}"
Tok(key) == <<"{", "{", key, "}", "}">>

\* A parameter declaration {{name:color=red}}.
Decl(name) == <<"{", "{", name, ":", "color", "=", "red", "}", "}">>

\* str(value) if value is not None else ""
Str(value) == IF value = None THEN <<>> ELSE value

\* Python str.replace(old, new): left to right, non-overlapping, one scan.
RECURSIVE Replace(_, _, _)
Replace(s, old, new) ==
    IF Len(s) < Len(old) THEN s
    ELSE IF SubSeq(s, 1, Len(old)) = old
         THEN new \o Replace(SubSeq(s, Len(old) + 1, Len(s)), old, new)
         ELSE <<s[1]>> \o Replace(Tail(s), old, new)

\* Number of non-overlapping occurrences of old in s (str.count).
RECURSIVE Count(_, _)
Count(s, old) ==
    IF Len(s) < Len(old) THEN 0
    ELSE IF SubSeq(s, 1, Len(old)) = old
         THEN 1 + Count(SubSeq(s, Len(old) + 1, Len(s)), old)
         ELSE Count(Tail(s), old)

(* ---------------------------------------------------------------- inputs *)

NoSize == <<>>
Sizes == {<<DefaultWidth, DefaultHeight>>, <<DefaultHeight, DefaultWidth>>}

RequiredKeys == <<"topic", "text", "image">>
ExtKeyOrder == <<"text", "x">>
ExtKeys == {ExtKeyOrder[i] : i \in 1..Len(ExtKeyOrder)}
Keys == {"topic", "text", "image", "x"}

Pieces == {Tok("topic"), Tok("text"), Tok("x"), Decl("x")}

RECURSIVE TemplatesUpTo(_)
TemplatesUpTo(n) ==
    IF n = 0 THEN {<<>>}
    ELSE LET S == TemplatesUpTo(n - 1)
         IN  S \cup {t \o p : t \in S, p \in Pieces}

Templates == TemplatesUpTo(MaxPieces)

\* Values of the required fields, and of the extension fields.  A topic is
\* null or itself a placeholder; an extension value for text is plain or a
\* placeholder of a key substituted later.
TopicValues == {None, Tok("text")}
TextValues == {<<"b">>}
ImageValues == {<<"d">>}
ExtValues(key) == IF key = "text" THEN {<<"c">>, Tok("x")} ELSE {<<"c">>}
ExtMaps ==
    UNION {{f \in [D -> {<<"c">>, Tok("x")}] : \A k \in D : f[k] \in ExtValues(k)} :
              D \in SUBSET ExtKeys}
NoExt == <<>>

(* ------------------------------------------------------------ file store *)

\* A template path is <width>x<height>/<file>.  Under each size directory
\* there is default.html, whose text is disk (no handler writes it), and
\* unreadable.html, which exists and whose open()/read() raises; missing.html
\* does not exist.
TemplatePaths == [dir : Sizes, name : {"default", "missing", "unreadable"}]
NoPath == [dir |-> NoSize, name |-> ""]

PathExists(path) == path.name # "missing"
Readable(path) == path.name = "default"
ReadFile(path) == disk

(* ---------------------------------------------------------------- engine *)

NoGen == [alive |-> FALSE]
NoHti == [built |-> FALSE]
NoCall == [via |-> "none"]
\* fs tells, of the call in progress or last finished, whether its
\* frame_<uuid>.png is in the working directory and whether it is at its
\* output path; a call that starts has no file yet.
NoFiles == [cwd |-> FALSE, out |-> FALSE]
\* The outcome of the last constructor or generate_frame call: what it
\* returned or raised, the underlying exception a raised error carries, and
\* how many times the call invoked self.hti.screenshot.
Outcome(kind, exc, cause, shots) ==
    [kind |-> kind, exc |-> exc, cause |-> cause, shots |-> shots]
NoResult == Outcome("none", "", "", 0)

\* An exception escaping the try block, unwrapped.
Reraise_raw(e, shots) == Outcome("error", e, "", shots)

\* except Exception as e: raise RuntimeError(f"HTML rendering failed: {e}")
Reraise(e, shots) == Outcome("error", "RuntimeError", e, shots)
NoApi == [op |-> "none"]
\* What has happened to the engine gen since its construction: the path
\* given to its constructor, the sizes Html2Image was constructed with, the
\* size of its first render call and of its first render call that got past
\* _ensure_hti, whether it is a handler's local (which nothing outside the
\* handler can call), and the steps its current or last render call ran.
NoHist == [requested |-> NoPath, ctor_log |-> <<>>,
           first_size |-> NoSize, first_ok_size |-> NoSize, local |-> FALSE,
           steps |-> <<>>]

\* The step just run, added to the steps of the call.
Step(h, name) == [h EXCEPT !.steps = Append(@, name)]

\* generate_frame awaiting the screenshot (run in an executor).
Awaits_screenshot(at) == at = "rasterizing"

\* Whether the coroutine gives up the event loop at a point of its body:
\* generate_frame holds no await, so it runs from its first statement to
\* its return or raise without another coroutine running.
Awaits(at) == FALSE

\* generate_frame going from the output name straight to the screenshot.
NextStep_skip_ensure(step) ==
    CASE step = "substitute" -> "allocate"
      [] step = "allocate" -> "screenshot"
      [] step = "ensure" -> "screenshot"
      [] step = "screenshot" -> "rasterizing"
      [] step = "rasterizing" -> "relocate"

\* The statement generate_frame goes on to after each of its steps.
NextStep(step) ==
    CASE step = "substitute" -> "allocate"
      [] step = "allocate" -> "ensure"
      [] step = "ensure" -> "screenshot"
      [] step = "screenshot" -> "rasterizing"
      [] step = "rasterizing" -> "relocate"

\* _load_template without the existence check: a missing file reads as empty.
_load_template_missing_ok(template_path) ==
    IF PathExists(template_path) /\ ~Readable(template_path)
    THEN [raised |-> "OSError", content |-> <<>>]
    ELSE [raised |-> "",
          content |-> IF PathExists(template_path)
                      THEN ReadFile(template_path) ELSE <<>>]

\* HTMLFrameGenerator._load_template
_load_template(template_path) ==
    IF ~PathExists(template_path)
    THEN [raised |-> "FileNotFoundError", content |-> <<>>]
    ELSE IF ~Readable(template_path)
         THEN [raised |-> "OSError", content |-> <<>>]
         ELSE [raised |-> "", content |-> ReadFile(template_path)]

\* __init__ constructing the backend eagerly, at the default size.
HTMLFrameGenerator_init_eager(template_path) ==
    LET t == _load_template(template_path)
    IN  IF t.raised # ""
        THEN [raised |-> t.raised, gen |-> NoGen]
        ELSE [raised |-> "",
              gen |-> [alive |-> TRUE,
                       template_path |-> template_path,
                       template |-> t.content,
                       hti |-> [built |-> TRUE,
                                size |-> <<DefaultWidth, DefaultHeight>>,
                                id |-> 1]]]

\* HTMLFrameGenerator.__init__
HTMLFrameGenerator_init(template_path) ==
    LET t == _load_template(template_path)
    IN  IF t.raised # ""
        THEN [raised |-> t.raised, gen |-> NoGen]
        ELSE [raised |-> "",
              gen |-> [alive |-> TRUE,
                       template_path |-> template_path,
                       template |-> t.content,
                       hti |-> NoHti]]

\* Html2Image(size=(width, height), custom_flags=custom_flags)
Html2Image(width, height, id) ==
    [built |-> TRUE, size |-> <<width, height>>, id |-> id]

\* _ensure_hti rebuilding the backend when the requested size differs.
_ensure_hti_resize(hti, width, height, id) ==
    IF ~hti.built \/ hti.size # <<width, height>>
    THEN Html2Image(width, height, id)
    ELSE hti

\* HTMLFrameGenerator._ensure_hti: the value of self.hti after the call,
\* when a construction it makes succeeds.
_ensure_hti(hti, width, height, id) ==
    IF ~hti.built THEN Html2Image(width, height, id) ELSE hti

\* The context built with the required fields applied after ext.
BuildContext_required_wins(topic, text, image, ext) ==
    LET base == <<<<"topic", topic>>, <<"text", text>>, <<"image", image>>>>
        isNew(k) == k \in DOMAIN ext /\ \A i \in 1..Len(base) : base[i][1] # k
        added == SelectSeq(ExtKeyOrder, isNew)
    IN  base \o [i \in 1..Len(added) |-> <<added[i], ext[added[i]]>>]

\* context = {"topic": .., "text": .., "image": ..}; context.update(ext):
\* a key already present keeps its position and takes the new value, a new
\* key is appended.
BuildContext(topic, text, image, ext) ==
    LET base == <<<<"topic", topic>>, <<"text", text>>, <<"image", image>>>>
        updated == [i \in 1..Len(base) |->
                       IF base[i][1] \in DOMAIN ext
                       THEN <<base[i][1], ext[base[i][1]]>>
                       ELSE base[i]]
        isNew(k) == k \in DOMAIN ext /\ \A i \in 1..Len(base) : base[i][1] # k
        added == SelectSeq(ExtKeyOrder, isNew)
    IN  updated \o [i \in 1..Len(added) |-> <<added[i], ext[added[i]]>>]

\* for key, value in context.items(): html = html.replace(placeholder, ...)
RECURSIVE SubstituteFrom(_, _, _)
SubstituteFrom(html, context, i) ==
    IF i > Len(context) THEN html
    ELSE SubstituteFrom(Replace(html, Tok(context[i][1]), Str(context[i][2])),
                        context, i + 1)

\* Substitution that then blanks every placeholder left over.
RECURSIVE StripTokens(_, _)
StripTokens(html, keys) ==
    IF keys = {} THEN html
    ELSE LET k == CHOOSE x \in keys : TRUE
         IN  StripTokens(Replace(html, Tok(k), <<>>), keys \ {k})

Substitute_strip_unknown(template, context) ==
    StripTokens(SubstituteFrom(template, context, 1), Keys)

Substitute(template, context) == SubstituteFrom(template, context, 1)

\* screenshot() called without size=: the backend's configured size.
ScreenshotSize_stale(hti, width, height) == hti.size

\* The size self.hti.screenshot(..., size=(width, height)) rasterizes at.
ScreenshotSize(hti, width, height) == <<width, height>>

\* The substituted text written back into self.template.
TemplateAfterRender_written_back(template, html) == html

\* self.template after the substitution loop: the loop reads it into the
\* local html and assigns only html.
TemplateAfterRender(template, html) == template

NewCall(via, template, topic, text, image, ext, width, height, api_size) ==
    [via |-> via, topic |-> topic, text |-> text, image |-> image, ext |-> ext,
     width |-> width, height |-> height,
     html |-> Substitute(template, BuildContext(topic, text, image, ext)),
     shots |-> 0, rasterized |-> FALSE, raster_html |-> <<>>, raster_size |-> NoSize,
     api_size |-> api_size]

(* ------------------------------------------------------------- handlers' *)
(* collaborators                                                           *)

\* resolve_template_path: an existing path, or a not-found condition.
resolve_template_path(template) ==
    IF PathExists(template)
    THEN [raised |-> "", path |-> template]
    ELSE [raised |-> "FileNotFoundError", path |-> NoPath]

\* parse_template_size: the <width>x<height> path segment.
parse_template_size(template_path) == template_path.dir

\* generator.parse_template_parameters(): every {{name:type=default}}.
parse_template_parameters(g) ==
    {[name |-> g.template[i + 2], type |-> g.template[i + 4],
      default |-> g.template[i + 6], label |-> g.template[i + 2]] :
        i \in {j \in 1..Len(g.template) :
                  /\ j + 8 <= Len(g.template)
                  /\ g.template[j] = "{" /\ g.template[j + 1] = "{"
                  /\ g.template[j + 3] = ":" /\ g.template[j + 5] = "="
                  /\ g.template[j + 7] = "}" /\ g.template[j + 8] = "}"}}

\* generator.get_media_size(): derived from the path, not the body.
get_media_size(g) == g.template_path.dir

\* The response render_frame builds from generate_frame's outcome.
render_frame_response(res, c, template) ==
    IF res.kind = "path"
    THEN [op |-> "render", status |-> 200, template |-> template,
          size |-> c.api_size, raster_size |-> c.raster_size, params |-> {}]
    ELSE [op |-> "render", status |-> 500, template |-> template,
          size |-> NoSize, raster_size |-> NoSize, params |-> {}]

ApiError(op, status, template) ==
    [op |-> op, status |-> status, template |-> template,
     size |-> NoSize, raster_size |-> NoSize, params |-> {}]

(* --------------------------------------------------------------- actions *)

Init ==
    /\ disk \in Templates
    /\ gen = NoGen
    /\ pc = "idle"
    /\ call = NoCall
    /\ fs = NoFiles
    /\ result = NoResult
    /\ api = NoApi
    /\ hist = NoHist
    /\ queued = FALSE
    /\ parked = NoCall

\* generator = HTMLFrameGenerator(template_path), by a direct user.
Construct(template_path) ==
    /\ pc = "idle"
    /\ ~queued
    /\ LET r == HTMLFrameGenerator_init(template_path)
       IN  /\ gen' = r.gen
           /\ result' = IF r.raised # ""
                        THEN Outcome("error", r.raised, "", 0)
                        ELSE Outcome("constructed", "", "", 0)
    /\ hist' = [NoHist EXCEPT !.requested = template_path]
    /\ api' = NoApi
    /\ UNCHANGED <<disk, pc, call, fs, conc>>

\* How a generate_frame call ends: the return or raise, and the handler's
\* response when render_frame made the call.
Finish(res) ==
    /\ pc' = "idle"
    /\ result' = res
    /\ call' = NoCall
    /\ api' = IF call.via = "api"
              THEN render_frame_response(res, call, api.template)
              ELSE api

\* A second caller awaits generate_frame on the engine while a call is
\* running: its coroutine waits for the event loop.
Submit ==
    /\ pc # "idle"
    /\ ~hist.local
    /\ ~queued
    /\ queued' = TRUE
    /\ UNCHANGED <<disk, gen, pc, call, fs, result, api, hist, parked>>

\* generate_frame, lines 152-168: build the context, substitute.  The event
\* loop is free; the call is the waiting one when there is one.
generate_frame_substitute(topic, text, image, ext, width, height) ==
    /\ pc = "idle"
    /\ gen.alive
    /\ ~hist.local
    /\ call' = NewCall("direct", gen.template, topic, text, image, ext,
                       width, height, NoSize)
    /\ gen' = [gen EXCEPT !.template = TemplateAfterRender(@, call'.html)]
    /\ pc' = NextStep("substitute")
    /\ result' = NoResult
    /\ api' = NoApi
    /\ hist' = [hist EXCEPT
                   !.first_size = IF @ = NoSize THEN <<width, height>> ELSE @,
                   !.steps = <<"substitute">>]
    /\ fs' = NoFiles
    /\ queued' = FALSE
    /\ UNCHANGED <<disk, parked>>

\* generate_frame, lines 170-173: a fresh frame_<uuid>.png; neither the
\* file in the working directory nor the one at output_path exists.
generate_frame_allocate ==
    /\ pc = "allocate"
    /\ fs' = NoFiles
    /\ pc' = NextStep("allocate")
    /\ hist' = Step(hist, "allocate")
    /\ UNCHANGED <<disk, gen, call, result, api, conc>>

\* generate_frame, lines 175-176: self._ensure_hti(width, height), outside
\* the try: a failing Html2Image construction propagates unwrapped.
generate_frame_ensure_hti ==
    /\ pc = "ensure"
    /\ LET h == _ensure_hti(gen.hti, call.width, call.height,
                            Len(hist.ctor_log) + 1)
       IN  IF h = gen.hti
           THEN /\ pc' = NextStep("ensure")
                /\ hist' = Step(hist, "ensure")
                /\ UNCHANGED <<disk, gen, call, result, api>>
           ELSE \E constructed \in BOOLEAN :
                  IF constructed
                  THEN /\ gen' = [gen EXCEPT !.hti = h]
                       /\ hist' = [Step(hist, "ensure") EXCEPT
                              !.ctor_log = Append(@, h.size),
                              !.first_ok_size =
                                  IF @ = NoSize
                                  THEN <<call.width, call.height>> ELSE @]
                       /\ pc' = NextStep("ensure")
                       /\ UNCHANGED <<call, result, api>>
                  ELSE /\ Finish(Outcome("error", "BackendError", "", call.shots))
                       /\ hist' = Step(hist, "ensure")
                       /\ UNCHANGED <<disk, gen>>
    /\ UNCHANGED <<disk, fs, conc>>

\* generate_frame, line 181: self.hti.screenshot(...) is entered.  The call
\* is synchronous: the coroutine keeps the event loop while it runs.
generate_frame_screenshot_call ==
    /\ pc = "screenshot"
    /\ IF Awaits(NextStep("screenshot")) /\ parked = NoCall
       THEN /\ parked' = [call EXCEPT !.shots = @ + 1]
            /\ call' = NoCall
            /\ pc' = "idle"
       ELSE /\ call' = [call EXCEPT !.shots = @ + 1]
            /\ pc' = NextStep("screenshot")
            /\ UNCHANGED parked
    /\ hist' = Step(hist, "rasterize")
    /\ UNCHANGED <<disk, gen, fs, result, api, queued>>

\* generate_frame, lines 181-185: self.hti.screenshot(...) ends.  It raises,
\* or returns having written save_as into the working directory, or returns
\* without having written it.  (A suspended call first gets the loop back.)
generate_frame_screenshot ==
    /\ IF pc = "idle" /\ parked # NoCall
       THEN /\ call' = parked
            /\ parked' = NoCall
            /\ pc' = "rasterizing"
            /\ UNCHANGED <<fs, result, api>>
       ELSE /\ pc = "rasterizing"
            /\ UNCHANGED parked
            /\ \E outcome \in {"raise", "written", "not_written"} :
                 IF outcome = "raise"
                 THEN /\ Finish(Reraise("ScreenshotError", call.shots))
                      /\ UNCHANGED fs
                 ELSE /\ call' = [call EXCEPT
                             !.rasterized = TRUE,
                             !.raster_html = call.html,
                             !.raster_size =
                                 ScreenshotSize(gen.hti, call.width, call.height)]
                      /\ fs' = [fs EXCEPT !.cwd = (outcome = "written")]
                      /\ pc' = NextStep("rasterizing")
                      /\ UNCHANGED <<result, api>>
    /\ UNCHANGED <<disk, gen, hist, queued>>

\* Whether generate_frame moves the file: os.path.exists(output_filename).
ShouldMove(files) == files.cwd

\* generate_frame, lines 187-198: move the file to output_path when it is
\* in the working directory; return output_path; any exception becomes
\* RuntimeError.
generate_frame_relocate ==
    /\ pc = "relocate"
    /\ IF ShouldMove(fs)
       THEN \E moved \in BOOLEAN :
              IF moved
              THEN /\ fs' = [cwd |-> FALSE, out |-> TRUE]
                   /\ Finish(Outcome("path", "", "", call.shots))
              ELSE /\ UNCHANGED fs
                   /\ Finish(Reraise("MoveError", call.shots))
       ELSE /\ UNCHANGED fs
            /\ Finish(Outcome("path", "", "", call.shots))
    /\ hist' = Step(hist, "relocate")
    /\ UNCHANGED <<disk, gen, conc>>

\* POST /frame/render, up to the first step of generate_frame; the steps
\* above carry the call on and Finish builds the response.  Every
\* exception of the handler is answered 500.
render_frame(template, title, text, image) ==
    /\ pc = "idle"
    /\ ~queued
    /\ LET r == resolve_template_path(template)
           g == HTMLFrameGenerator_init(r.path)
       IN  IF r.raised # ""
           THEN /\ api' = ApiError("render", 500, template)
                /\ UNCHANGED <<gen, pc, call, result, hist, fs>>
           ELSE IF g.raised # ""
           THEN /\ api' = ApiError("render", 500, template)
                /\ gen' = NoGen
                /\ result' = Outcome("error", g.raised, "", 0)
                /\ hist' = [NoHist EXCEPT !.requested = r.path]
                /\ UNCHANGED <<disk, pc, call, fs>>
           ELSE /\ call' = NewCall("api", g.gen.template, title, text, image,
                                   NoExt, DefaultWidth, DefaultHeight,
                                   parse_template_size(r.path))
                /\ gen' = [g.gen EXCEPT
                              !.template = TemplateAfterRender(@, call'.html)]
                /\ pc' = NextStep("substitute")
                /\ result' = NoResult
                /\ api' = ApiError("render", 0, template)
                /\ hist' = [NoHist EXCEPT
                               !.requested = r.path,
                               !.first_size = <<DefaultWidth, DefaultHeight>>,
                               !.local = TRUE,
                               !.steps = <<"substitute">>]
                /\ fs' = NoFiles
    /\ UNCHANGED <<disk, conc>>

\* GET /frame/template/params, the whole handler.
get_template_params(template) ==
    /\ pc = "idle"
    /\ ~queued
    /\ LET r == resolve_template_path(template)
           g == HTMLFrameGenerator_init(r.path)
       IN  IF r.raised = "FileNotFoundError"
           THEN /\ api' = ApiError("params", 404, template)
                /\ UNCHANGED <<gen, result, hist>>
           ELSE IF g.raised # ""
           THEN /\ api' = ApiError("params",
                                   IF g.raised = "FileNotFoundError"
                                   THEN 404 ELSE 500, template)
                /\ gen' = NoGen
                /\ result' = Outcome("error", g.raised, "", 0)
                /\ hist' = [NoHist EXCEPT !.requested = r.path]
           ELSE /\ gen' = g.gen
                /\ result' = Outcome("constructed", "", "", 0)
                /\ hist' = [NoHist EXCEPT !.requested = r.path, !.local = TRUE]
                /\ api' = [op |-> "params", status |-> 200,
                           template |-> template,
                           size |-> get_media_size(g.gen),
                           raster_size |-> NoSize,
                           params |-> parse_template_parameters(g.gen)]
    /\ UNCHANGED <<disk, pc, call, fs, conc>>

GenerateFrameStep ==
    \/ generate_frame_allocate
    \/ generate_frame_ensure_hti
    \/ generate_frame_screenshot_call
    \/ generate_frame_screenshot
    \/ generate_frame_relocate

Next ==
    \/ \E p \in TemplatePaths : Construct(p)
    \/ \E topic \in TopicValues, text \in TextValues, image \in ImageValues,
          ext \in ExtMaps, size \in Sizes :
           generate_frame_substitute(topic, text, image, ext, size[1], size[2])
    \/ Submit
    \/ generate_frame_allocate
    \/ generate_frame_ensure_hti
    \/ generate_frame_screenshot_call
    \/ generate_frame_screenshot
    \/ generate_frame_relocate
    \/ \E p \in TemplatePaths, title \in TopicValues, text \in TextValues,
          image \in ImageValues : render_frame(p, title, text, image)
    \/ \E p \in TemplatePaths : get_template_params(p)

Spec == Init /\ [][Next]_vars

(* ------------------------------------------------------ reference notions *)

\* The substitution context as a mapping, extension fields overlaid on the
\* required ones.
Overlay(c) ==
    [k \in {"topic", "text", "image"} \cup DOMAIN c.ext |->
        IF k \in DOMAIN c.ext THEN c.ext[k]
        ELSE IF k = "topic" THEN c.topic
        ELSE IF k = "text" THEN c.text
        ELSE c.image]

\* One left-to-right pass over s replacing each {{k}} of s, k in the
\* mapping, by its value; nothing inside a value is looked at again.
RECURSIVE ParallelSubst(_, _)
ParallelSubst(s, m) ==
    IF s = <<>> THEN <<>>
    ELSE IF /\ Len(s) >= 5
            /\ s[1] = "{" /\ s[2] = "{" /\ s[4] = "}" /\ s[5] = "}"
            /\ s[3] \in DOMAIN m
         THEN Str(m[s[3]]) \o ParallelSubst(SubSeq(s, 6, Len(s)), m)
         ELSE <<s[1]>> \o ParallelSubst(Tail(s), m)

BraceFree(m) ==
    \A k \in DOMAIN m : \A i \in 1..Len(Str(m[k])) : Str(m[k])[i] \notin {"{", "}"}

InCall == pc # "idle"

(* ---------------------------------------------------------------- claims *)

\* C1: whenever generate_frame returns a path, the rendered file exists at
\* that path; a file the backend did not produce, or a relocation that did
\* not happen, makes the call fail instead.
C1_ReturnedPathExists ==
    (pc = "idle" /\ result.kind = "path") => fs.out

\* C2: substitution is one literal pass: the HTML is the template with each
\* placeholder of the original template text replaced by its value, and a
\* placeholder that appears only inside a substituted value is not replaced.
C2_SingleLiteralPass ==
    InCall => call.html = ParallelSubst(gen.template, Overlay(call))

\* C3: constructing an engine on a missing template raises
\* FileNotFoundError and leaves no engine: no backend is constructed and no
\* render step runs; an engine that exists loaded an existing template.
C3_MissingTemplateNoBackend ==
    /\ gen.alive => PathExists(gen.template_path)
    /\ (hist.requested # NoPath /\ ~PathExists(hist.requested)) =>
          /\ result.kind = "error" /\ result.exc = "FileNotFoundError"
          /\ ~gen.alive
          /\ hist.ctor_log = <<>>
          /\ pc = "idle"
    /\ InCall => gen.alive

C3_Witness ==
    /\ hist.requested.name = "missing"
    /\ result.exc = "FileNotFoundError"
    /\ ~gen.alive

\* C4 as stated: the backend is constructed at most once and, once
\* constructed, is sized to the first render call made on the engine.
C4_BackendSizedToFirstCall ==
    /\ Len(hist.ctor_log) <= 1
    /\ (gen.alive /\ gen.hti.built) => gen.hti.size = hist.first_size

\* C4, amended: the backend is constructed at most once per engine, by the
\* first render call whose backend construction succeeds and with that
\* call's size; every later call reuses that instance, whose size never
\* changes, whatever size the later call requests.
C4_BackendBuiltOnceReused ==
    /\ Len(hist.ctor_log) <= 1
    /\ gen.alive => (gen.hti.built <=> hist.first_ok_size # NoSize)
    /\ (gen.alive /\ gen.hti.built) =>
          /\ gen.hti.size = hist.first_ok_size
          /\ hist.ctor_log = <<gen.hti.size>>
          /\ gen.hti.id = 1
    /\ pc \in {"screenshot", "rasterizing", "relocate"} => gen.hti.built

C4_Witness ==
    /\ pc = "relocate"
    /\ gen.hti.built
    /\ gen.hti.size # <<call.width, call.height>>

\* C5: every rasterization is performed at the size its own call requested,
\* whatever size an earlier call on the engine had.
C5_RasterAtRequestedSize ==
    (InCall /\ call.rasterized) => call.raster_size = <<call.width, call.height>>

C5_Witness ==
    /\ InCall /\ call.rasterized
    /\ call.raster_size # hist.first_ok_size
    /\ call.raster_size = <<call.width, call.height>>

C7_ExtensionOverridesRequired ==
    (InCall /\ "text" \in DOMAIN call.ext) =>
        /\ \A v \in TextValues \cup TopicValues \cup {<<"z">>} :
              Substitute(gen.template,
                         BuildContext(call.topic, v, call.image, call.ext))
                = call.html
        /\ BraceFree(Overlay(call)) =>
              call.html = ParallelSubst(gen.template, Overlay(call))

C7_Witness ==
    /\ InCall /\ "text" \in DOMAIN call.ext
    /\ call.ext["text"] = <<"c">> /\ call.text = <<"b">>
    /\ Count(gen.template, Tok("text")) = 2
    /\ Count(call.html, <<"c">>) = 2
    /\ Count(call.html, <<"b">>) = 0

\* C8: a placeholder whose key is in neither the required nor the extension
\* fields stays verbatim in the HTML, and that HTML is what the backend is
\* handed.
C8_MissingKeyPassthrough ==
    \A k \in Keys :
        (InCall /\ k \notin DOMAIN Overlay(call)) =>
            /\ Count(call.html, Tok(k)) >= Count(gen.template, Tok(k))
            /\ call.rasterized =>
                  /\ call.raster_html = call.html
                  /\ Count(call.raster_html, Tok(k)) >= Count(gen.template, Tok(k))

C8_Witness ==
    /\ pc = "relocate" /\ call.rasterized
    /\ "x" \notin DOMAIN call.ext
    /\ Count(gen.template, Tok("x")) = 1
    /\ Count(call.raster_html, Tok("x")) = 1
    /\ call.raster_html # gen.template

\* C9: get_template_params constructs no backend and leaves the loaded
\* template as read, and calling it again on the same template gives the
\* same response.
C9_ParamsLeaveNoBackend ==
    (api.op = "params" /\ api.status = 200) =>
        /\ gen.alive /\ ~gen.hti.built
        /\ hist.ctor_log = <<>>
        /\ gen.template = disk
        /\ gen.template_path = api.template
        /\ pc = "idle"

C9_ParamsRepeat ==
    (/\ api.op = "params" /\ api.status = 200
     /\ api'.op = "params" /\ api'.status = 200
     /\ api'.template = api.template) => (api' = api /\ gen' = gen)

C10_NotFoundDistinct ==
    (api.op \in {"render", "params"} /\ api.status # 0) =>
        IF ~PathExists(api.template)
        THEN api.status = 404
        ELSE api.status \in {200, 500}

\* C11: a failure of the screenshot or of the move ends the call with one
\* RuntimeError carrying the underlying exception, and there is no retry:
\* no call invokes screenshot more than once, and a call that failed
\* returned no path.
C11_FailureWrappedNoRetry ==
    /\ InCall => call.shots =
          (IF pc \in {"rasterizing", "relocate"} THEN 1 ELSE 0)
    /\ result.shots <= 1
    /\ (pc = "idle" /\ result.kind = "error" /\ result.shots = 1) =>
          /\ result.exc = "RuntimeError"
          /\ result.cause \in {"ScreenshotError", "MoveError"}
          /\ api.op = "render" => api.status = 500
    /\ (pc = "idle" /\ result.kind = "path") =>
          /\ result.shots = 1 /\ result.cause = ""
    /\ (pc = "idle" /\ result.cause = "MoveError") => (fs.cwd /\ ~fs.out)

C11_Witness ==
    /\ pc = "idle"
    /\ result = Outcome("error", "RuntimeError", "MoveError", 1)
    /\ gen.alive /\ gen.hti.built

\* C13: the loaded template is immutable: whatever render calls were made
\* on an engine and however they ended, its template is the text loaded at
\* construction, and each call substitutes into that text.
C13_TemplateImmutable ==
    /\ gen.alive => gen.template = disk
    /\ InCall =>
          call.html = Substitute(disk, BuildContext(call.topic, call.text,
                                                    call.image, call.ext))

C13_Witness ==
    /\ pc = "allocate"
    /\ hist.first_ok_size # NoSize
    /\ Count(disk, Tok("text")) >= 1
    /\ call.html # disk
    /\ gen.template = disk

\* The rasterizations under way against the engine's backend: the one the
\* running coroutine is in, and the one of a suspended coroutine.
Rasterizing ==
    (IF pc = "rasterizing" THEN 1 ELSE 0) + (IF parked # NoCall THEN 1 ELSE 0)

StepOrder == <<"substitute", "allocate", "ensure", "rasterize", "relocate">>

\* The calls and steps that leave the engine instance in place.
EngineKept == pc # "idle" \/ (pc' # "idle" /\ ~hist'.local)

\* C14: the steps of every render call are substitute, allocate, ensure,
\* rasterize, relocate in that order (a failing call stops after one of
\* them, a returning call ran all five); rasterize runs only with the
\* backend constructed; a constructed backend stays the engine's backend,
\* also after a call that failed.
C14_StepOrderBackendKept ==
    /\ [](/\ Len(hist.steps) <= Len(StepOrder)
          /\ hist.steps = SubSeq(StepOrder, 1, Len(hist.steps))
          /\ pc = "allocate" => Len(hist.steps) = 1
          /\ pc = "ensure" => Len(hist.steps) = 2
          /\ pc = "screenshot" => Len(hist.steps) = 3
          /\ pc \in {"rasterizing", "relocate"} => Len(hist.steps) = 4
          /\ (pc = "idle" /\ result.kind = "path") => hist.steps = StepOrder
          /\ (pc \in {"screenshot", "rasterizing", "relocate"}
                \/ Len(hist.steps) >= 4) => (gen.alive /\ gen.hti.built))
    /\ [][(EngineKept /\ gen.hti.built) => gen'.hti = gen.hti]_vars

C14_Witness ==
    /\ pc = "idle"
    /\ result = Outcome("error", "RuntimeError", "ScreenshotError", 1)
    /\ hist.steps = SubSeq(StepOrder, 1, 4)
    /\ gen.alive /\ gen.hti.built
    /\ Len(hist.ctor_log) = 1
    /\ hist.first_ok_size # hist.first_size

====
